---- MODULE Spec2Model ----
(***************************************************************************)
(* A model of the server side of agentscope's rpc agent                    *)
(* (src/src/agentscope/agents/rpc_agent.py): the AgentPlatform servicer    *)
(* with its task counter, its result pool (an ExpiringDict), its agent     *)
(* registry, the dispatch of call_func, the six handlers and the worker    *)
(* process_messages.  Client threads issue blocking RPCs; every `_reply`   *)
(* submits one worker to the executor.                                     *)
(***************************************************************************)
EXTENDS Naturals, Sequences, FiniteSets

(***************************************************************************)
(* Bounds of the model.                                                    *)
(***************************************************************************)
\* number of `_reply` calls the model lets the clients issue
MaxTasks == 2
\* AgentPlatform(max_pool_size=...): capacity of the result pool
max_pool_size == 1
\* AgentPlatform(max_timeout_seconds=...): age (in ticks) at which a record expires
max_timeout_seconds == 1
\* number of `_reply` calls the clients issue in SpecRegistry
MaxRegistryTasks == 1
\* number of RPCs the model lets the server of a launcher handle
MaxHandled == 2
\* largest num_instances passed to clone_instances
MaxInstances == 2
\* number of RpcAgent proxies the main process constructs
MaxProxies == 3

\* client threads issuing blocking RPCs
Callers == {"c1", "c2"}
\* the agent ids: the clients name them in their requests, and a cloned
\* instance gives itself one of them
AgentIds == {"a1", "a2"}

\* the six handlers of the servicer
Handlers == {"_create_agent", "_delete_agent", "_clone_agent", "_reply", "_get", "_observe"}
\* other attributes of the servicer object, which hasattr() finds too
OtherAttrs == {"get_task_id", "agent_pool"}
\* a name that is no attribute of the servicer
NoAttrs == {"_no_such_method"}
TargetFuncs == Handlers \cup OtherAttrs \cup NoAttrs

\* `value` of a `_create_agent` request: empty, a blob naming a registered
\* class, a blob naming a class that is not registered
CreateValues == {"empty", "Echo", "Unregistered"}
RegisteredClasses == {"Echo", "Echo2"}

None == [kind |-> "None"]
NoAgent == [agent_id |-> "", class_name |-> ""]

(***************************************************************************)
(* Messages.                                                               *)
(***************************************************************************)
\* the Msg an agent's reply returns
AgentMsg(agent_id) ==
    [kind |-> "Msg", name |-> agent_id, role |-> "assistant", status |-> ""]

\* the Msg process_messages stores when reply raised
ErrorMsg ==
    [kind |-> "Msg", name |-> "ERROR", role |-> "assistant", status |-> "ERROR"]

\* a threading.Condition; `id` tells the objects apart (the index of the task
\* it was created for)
Condition(id) == [kind |-> "Condition", id |-> id]

(***************************************************************************)
(* ExpiringDict (expiringdict 1.2): an OrderedDict of key -> (value,       *)
(* set_time), here a sequence of [key, val, age] in the dict's order.      *)
(***************************************************************************)
VARIABLE max_len       \* ExpiringDict.max_len of the result pool

Entry(k, v) == [key |-> k, val |-> v, age |-> 0]

\* item_age < self.max_age
Live(e) == e.age < max_timeout_seconds

Pos(d, k) ==
    IF \E i \in 1..Len(d) : d[i].key = k
    THEN CHOOSE i \in 1..Len(d) : d[i].key = k
    ELSE 0

Remove(d, i) == SubSeq(d, 1, i - 1) \o SubSeq(d, i + 1, Len(d))

\* ExpiringDict.__getitem__ / get: the value read (None for a KeyError) and
\* the dict after it (an expired item is deleted by the read)
EDRead(d, k) ==
    LET i == Pos(d, k) IN
    IF i = 0 THEN [val |-> None, dict |-> d]
    ELSE IF Live(d[i]) THEN [val |-> d[i].val, dict |-> d]
    ELSE [val |-> None, dict |-> Remove(d, i)]

\* ExpiringDict.__setitem__
EDSetItem(d, k, v) ==
    LET i  == Pos(d, k)
        d1 == IF Len(d) = max_len
              THEN IF i # 0 /\ Live(d[i]) THEN Remove(d, i)
                   ELSE IF i # 0
                        \* `key in self` deleted the expired item and answered
                        \* False: popitem(last=False) on what is left
                        THEN (IF Len(d) > 1 THEN Tail(Remove(d, i)) ELSE << >>)
                        ELSE Tail(d)
              ELSE d
        j  == Pos(d1, k)
    IN  IF j # 0 THEN [d1 EXCEPT ![j] = Entry(k, v)]
        ELSE Append(d1, Entry(k, v))

(***************************************************************************)
(* State.                                                                  *)
(***************************************************************************)
VARIABLES
    task_id_counter,   \* AgentPlatform.task_id_counter
    result_pool,       \* AgentPlatform.result_pool
    agent_pool,        \* AgentPlatform.agent_pool: agent id -> instance, NoAgent when absent
    tasks,             \* the tasks handed to the executor, in the order of their allocation
    calls,             \* per client thread: the RPC it is in
    response,          \* the response the last step sent to a client, NoResp if none
    created,           \* history: the ids whose `_create_agent` returned, no
                       \* `_delete_agent` of the id having run since
    launcher,          \* the RpcAgentServerLauncher and its child process
    proxies            \* the RpcAgent proxies of the main process, in the order of
                       \* their construction

vars == <<task_id_counter, result_pool, agent_pool, tasks, calls, response, created,
          max_len, launcher, proxies>>

\* what the steps of the servicer leave alone: the capacity of the pool, the
\* launcher and the proxies
fixed == <<max_len, launcher, proxies>>

\* no launcher has been constructed: the servicer runs in the main process
NoLauncher == [pc |-> "none"]

\* no RpcAgent has been constructed
NoProxies == << >>

NoResp ==
    [caller |-> "", func |-> "", agent_id |-> "", ref |-> 0, status |-> "NONE",
     detail |-> "", task_id |-> 0, msg |-> None, new_id |-> ""]

\* the outcome of an RPC: a grpc status (or the exception the handler raised)
Resp(status, detail) ==
    [status |-> status, detail |-> detail, task_id |-> 0, msg |-> None, new_id |-> ""]

IdleCall ==
    [pc |-> "idle", func |-> "", agent_id |-> "", value |-> "", ref |-> 0, local |-> 0]

\* AgentPlatform(max_pool_size=n)
InitPlatform(n) ==
    /\ task_id_counter = 0
    /\ result_pool = << >>
    /\ max_len = n
    /\ agent_pool = [a \in AgentIds |-> NoAgent]
    /\ tasks = << >>
    /\ calls = [c \in Callers |-> IdleCall]
    /\ response = NoResp
    /\ created = {}

Init ==
    /\ InitPlatform(max_pool_size)
    /\ launcher = NoLauncher
    /\ proxies = NoProxies

(***************************************************************************)
(* Helpers of the servicer.                                                *)
(***************************************************************************)
\* a get_task_id that forgets the increment
get_task_id_no_increment(counter) == counter

\* AgentPlatform.get_task_id: the counter after `self.task_id_counter += 1`
get_task_id(counter) == counter + 1

\* AgentPlatform.agent_exists
agent_exists(pool, agent_id) == pool[agent_id] # NoAgent

\* hasattr(self, request.target_func)
hasattr(target_func) == target_func \in Handlers \cup OtherAttrs

\* a dispatch that looks no agent up
UncheckedAll == Handlers

\* the handlers call_func runs without looking the agent up
Unchecked == {"_create_agent", "_get"}

\* the RPC of thread c ends with response r
Return(c, r) ==
    /\ calls' = [calls EXCEPT ![c] = IdleCall]
    /\ response' = [caller |-> c, func |-> calls[c].func, agent_id |-> calls[c].agent_id,
                    ref |-> calls[c].ref, status |-> r.status, detail |-> r.detail,
                    task_id |-> r.task_id, msg |-> r.msg, new_id |-> r.new_id]

\* thread c goes on inside its handler
Goto(c, pc) ==
    /\ calls' = [calls EXCEPT ![c].pc = pc]
    /\ response' = NoResp

\* `_reply` calls dispatched and not yet given a task id
PendingAlloc == Cardinality({c \in Callers : calls[c].pc = "_reply"})

(***************************************************************************)
(* The registry handlers.                                                  *)
(***************************************************************************)
\* AgentPlatform.check_and_generate_agent, under agent_id_lock: the registry
\* after it.  agent_configs is None for an empty value; subscripting it, an
\* unregistered class name or a raising constructor leave the method by an
\* exception before anything is assigned.
CreateRaises(pool, agent_id, value) ==
    /\ ~agent_exists(pool, agent_id)
    /\ value \notin RegisteredClasses

\* a creation that registers nothing
check_and_generate_agent_no_insert(pool, agent_id, value) == pool

\* a creation that registers an instance before its construction has
\* succeeded
check_and_generate_agent_partial(pool, agent_id, value) ==
    IF agent_exists(pool, agent_id)
    THEN pool
    ELSE [pool EXCEPT ![agent_id] = [agent_id |-> agent_id, class_name |-> value]]

\* a creation that replaces the instance of an id that is registered
check_and_generate_agent_overwrite(pool, agent_id, value) ==
    IF value \notin RegisteredClasses
    THEN pool
    ELSE [pool EXCEPT ![agent_id] = [agent_id |-> agent_id, class_name |-> value]]

\* a creation that leaves the new instance the id it gave itself
check_and_generate_agent_own_id(pool, agent_id, value) ==
    IF agent_exists(pool, agent_id) \/ CreateRaises(pool, agent_id, value)
    THEN pool
    ELSE [pool EXCEPT ![agent_id] = [agent_id |-> "generated", class_name |-> value]]

check_and_generate_agent(pool, agent_id, value) ==
    IF agent_exists(pool, agent_id) \/ CreateRaises(pool, agent_id, value)
    THEN pool
    ELSE [pool EXCEPT ![agent_id] = [agent_id |-> agent_id, class_name |-> value]]

\* AgentPlatform._create_agent: the response
CreateAgentResp(pool, agent_id, value) ==
    IF CreateRaises(pool, agent_id, value)
    THEN Resp("EXCEPTION", IF value = "empty" THEN "TypeError" ELSE "UnknownClass")
    ELSE Resp("OK", "")

\* AgentPlatform.check_and_delete_agent, under agent_id_lock
check_and_delete_agent(pool, agent_id) ==
    IF agent_exists(pool, agent_id)
    THEN [pool EXCEPT ![agent_id] = NoAgent]
    ELSE pool

\* AgentPlatform._delete_agent
DeleteAgent(c) ==
    /\ calls[c].pc = "_delete_agent"
    /\ agent_pool' = check_and_delete_agent(agent_pool, calls[c].agent_id)
    /\ created' = created \ {calls[c].agent_id}
    /\ Return(c, Resp("OK", ""))
    /\ UNCHANGED <<task_id_counter, result_pool, tasks>>
    /\ UNCHANGED fixed

\* AgentPlatform._clone_agent, first `with self.agent_id_lock`: the lookup of
\* the source agent
CloneLookup(c) ==
    /\ calls[c].pc = "_clone_agent"
    /\ IF ~agent_exists(agent_pool, calls[c].agent_id)
       THEN Return(c, Resp("EXCEPTION", "ValueError"))
       ELSE /\ calls' = [calls EXCEPT ![c].pc = "clone_insert",
                                      ![c].value = agent_pool[calls[c].agent_id].class_name]
            /\ response' = NoResp
    /\ UNCHANGED <<task_id_counter, result_pool, agent_pool, tasks, created>>
    /\ UNCHANGED fixed

\* the agent_id the new instance gives itself at construction
FreshAgentIds(pool) == {g \in AgentIds : ~agent_exists(pool, g)}

\* a clone that is registered under the id of its source
CloneInsertAsSource(c) ==
    /\ calls[c].pc = "clone_insert"
    /\ agent_pool' = [agent_pool EXCEPT ![calls[c].agent_id] =
                         [agent_id |-> calls[c].agent_id, class_name |-> calls[c].value]]
    /\ Return(c, [Resp("OK", "") EXCEPT !.new_id = calls[c].agent_id])
    /\ UNCHANGED <<task_id_counter, result_pool, tasks, created>>
    /\ UNCHANGED fixed

\* AgentPlatform._clone_agent, the construction of the new instance and the
\* second `with self.agent_id_lock`: the insertion under the new id, which
\* is not the id of the source
CloneInsert(c) ==
    /\ calls[c].pc = "clone_insert"
    /\ \E g \in FreshAgentIds(agent_pool) \ {calls[c].agent_id} :
          /\ agent_pool' = [agent_pool EXCEPT ![g] =
                               [agent_id |-> g, class_name |-> calls[c].value]]
          /\ Return(c, [Resp("OK", "") EXCEPT !.new_id = g])
    /\ UNCHANGED <<task_id_counter, result_pool, tasks, created>>
    /\ UNCHANGED fixed

(***************************************************************************)
(* call_func: the dispatch.  A client thread sends a request; the servicer *)
(* aborts it or runs the attribute named by target_func.  `_create_agent`  *)
(* is one step under agent_id_lock; an attribute that is no handler raises *)
(* TypeError when called with the request (wrong arity, or not callable).  *)
(***************************************************************************)
\* the response of the RPC of thread c
Respond(c, target_func, agent_id, ref, r) ==
    response' = [caller |-> c, func |-> target_func, agent_id |-> agent_id,
                 ref |-> ref, status |-> r.status, detail |-> r.detail,
                 task_id |-> r.task_id, msg |-> r.msg, new_id |-> r.new_id]

call_func(c, target_func, agent_id, value, ref) ==
    /\ calls[c].pc = "idle"
    /\ IF ~hasattr(target_func)
       THEN /\ Respond(c, target_func, agent_id, ref,
                       Resp("INVALID_ARGUMENT", "Unsupported method"))
            /\ UNCHANGED <<agent_pool, calls, created>>
       ELSE IF target_func \notin Unchecked /\ ~agent_exists(agent_pool, agent_id)
       THEN /\ Respond(c, target_func, agent_id, ref,
                       Resp("INVALID_ARGUMENT", "Agent not exists"))
            /\ UNCHANGED <<agent_pool, calls, created>>
       ELSE IF target_func = "_create_agent"
       THEN /\ agent_pool' = check_and_generate_agent(agent_pool, agent_id, value)
            /\ Respond(c, target_func, agent_id, ref,
                       CreateAgentResp(agent_pool, agent_id, value))
            /\ created' = IF CreateAgentResp(agent_pool, agent_id, value).status = "OK"
                          THEN created \cup {agent_id} ELSE created
            /\ UNCHANGED calls
       ELSE IF target_func \in OtherAttrs
       THEN /\ Respond(c, target_func, agent_id, ref, Resp("EXCEPTION", "TypeError"))
            /\ UNCHANGED <<agent_pool, calls, created>>
       ELSE /\ calls' = [calls EXCEPT ![c] =
                   [pc |-> target_func, func |-> target_func, agent_id |-> agent_id,
                    value |-> value, ref |-> ref, local |-> 0]]
            /\ response' = NoResp
            /\ UNCHANGED <<agent_pool, created>>
    /\ UNCHANGED <<task_id_counter, result_pool, tasks>>
    /\ UNCHANGED fixed

(***************************************************************************)
(* `_reply`: the future handshake.                                         *)
(***************************************************************************)
NewTask(task_id, agent_id, ref) ==
    [task_id |-> task_id, agent_id |-> agent_id, ref |-> ref, pc |-> "new",
     cond |-> None, found |-> FALSE, result |-> ""]

\* AgentPlatform._reply: deserialize the input, task_id = self.get_task_id()
ReplyAlloc(c) ==
    /\ calls[c].pc = "_reply"
    /\ task_id_counter' = get_task_id(task_id_counter)
    /\ tasks' = Append(tasks, NewTask(task_id_counter', calls[c].agent_id, calls[c].ref))
    /\ calls' = [calls EXCEPT ![c].pc = "reply_insert", ![c].local = Len(tasks) + 1]
    /\ response' = NoResp
    /\ UNCHANGED <<result_pool, agent_pool, created>>
    /\ UNCHANGED fixed

\* self.result_pool[task_id] = threading.Condition()
ReplyInsert(c) ==
    /\ calls[c].pc = "reply_insert"
    /\ result_pool' = EDSetItem(result_pool, tasks[calls[c].local].task_id,
                                Condition(calls[c].local))
    /\ Goto(c, "reply_submit")
    /\ UNCHANGED <<task_id_counter, agent_pool, tasks, created>>
    /\ UNCHANGED fixed

\* self.executor.submit(self.process_messages, task_id, agent_id, msg)
ReplySubmit(c) ==
    /\ calls[c].pc = "reply_submit"
    /\ tasks' = [tasks EXCEPT ![calls[c].local].pc = "start"]
    /\ Goto(c, "reply_return")
    /\ UNCHANGED <<task_id_counter, result_pool, agent_pool, created>>
    /\ UNCHANGED fixed

\* a `_reply` that answers only when the worker of its task has finished
ReplyReturnAfterWorker(c) ==
    /\ calls[c].pc = "reply_return"
    /\ tasks[calls[c].local].pc = "done"
    /\ Return(c, [Resp("OK", "") EXCEPT
                     !.task_id = tasks[calls[c].local].task_id,
                     !.msg = AgentMsg(calls[c].agent_id)])
    /\ UNCHANGED <<task_id_counter, result_pool, agent_pool, tasks, created>>
    /\ UNCHANGED fixed

\* return RpcMsg(Msg(name=self.agent_pool[agent_id].name, content=None, task_id))
ReplyReturn(c) ==
    /\ calls[c].pc = "reply_return"
    /\ IF agent_exists(agent_pool, calls[c].agent_id)
       THEN Return(c, [Resp("OK", "") EXCEPT
                          !.task_id = tasks[calls[c].local].task_id,
                          !.msg = AgentMsg(agent_pool[calls[c].agent_id].agent_id)])
       ELSE Return(c, Resp("EXCEPTION", "KeyError"))
    /\ UNCHANGED <<task_id_counter, result_pool, agent_pool, tasks, created>>
    /\ UNCHANGED fixed

(***************************************************************************)
(* `_get`: the wait loop.                                                  *)
(***************************************************************************)
\* result = self.result_pool.get(task_id); a Condition is waited on, anything
\* else leaves the loop and is serialized: None has no serialize()
GetRead(c) ==
    /\ calls[c].pc = "_get"
    /\ LET r == EDRead(result_pool, calls[c].ref) IN
       /\ result_pool' = r.dict
       /\ IF r.val.kind = "Condition"
          THEN /\ calls' = [calls EXCEPT ![c].pc = "get_wait", ![c].local = r.val.id]
               /\ response' = NoResp
          ELSE IF r.val = None
               THEN Return(c, Resp("EXCEPTION", "AttributeError"))
               ELSE Return(c, [Resp("OK", "") EXCEPT !.msg = r.val])
    /\ UNCHANGED <<task_id_counter, agent_pool, tasks, created>>
    /\ UNCHANGED fixed

\* with result: result.wait(timeout=1): the thread starts to wait
GetWait(c) ==
    /\ calls[c].pc = "get_wait"
    /\ Goto(c, "get_waiting")
    /\ UNCHANGED <<task_id_counter, result_pool, agent_pool, tasks, created>>
    /\ UNCHANGED fixed

\* a wait() without timeout
GetTimeoutNever(c) ==
    /\ FALSE
    /\ UNCHANGED vars

\* wait(timeout=1) returns after its timeout, and the loop reads again
GetTimeout(c) ==
    /\ calls[c].pc = "get_waiting"
    /\ calls' = [calls EXCEPT ![c].pc = "_get", ![c].local = 0]
    /\ response' = NoResp
    /\ UNCHANGED <<task_id_counter, result_pool, agent_pool, tasks, created>>
    /\ UNCHANGED fixed

(***************************************************************************)
(* PlaceholderMessage.update_value: a blocking `_get` at the server the    *)
(* placeholder came from.  It returns the value, or the RPC fails.         *)
(***************************************************************************)
ResolveOutcomes == {"value", "RpcError"}

(***************************************************************************)
(* `_observe`.                                                             *)
(***************************************************************************)
\* for msg in msgs: if isinstance(msg, PlaceholderMessage): msg.update_value()
ObserveResolve(c, outcome) ==
    /\ calls[c].pc = "_observe"
    /\ calls[c].ref # 0
    /\ IF outcome = "value"
       THEN Goto(c, "observe_deliver")
       ELSE Return(c, Resp("EXCEPTION", "RpcError"))
    /\ UNCHANGED <<task_id_counter, result_pool, agent_pool, tasks, created>>
    /\ UNCHANGED fixed

\* self.agent_pool[request.agent_id].observe(msgs)
ObserveDeliver(c) ==
    /\ calls[c].pc = IF calls[c].ref = 0 THEN "_observe" ELSE "observe_deliver"
    /\ IF agent_exists(agent_pool, calls[c].agent_id)
       THEN Return(c, Resp("OK", ""))
       ELSE Return(c, Resp("EXCEPTION", "KeyError"))
    /\ UNCHANGED <<task_id_counter, result_pool, agent_pool, tasks, created>>
    /\ UNCHANGED fixed

(***************************************************************************)
(* process_messages: the worker of task i (its index in `tasks`).          *)
(***************************************************************************)
\* if isinstance(task_msg, PlaceholderMessage): task_msg.update_value()
\* (outside the try: a failed resolution leaves the worker)
WorkerResolve(i, outcome) ==
    /\ tasks[i].pc = "start"
    /\ tasks[i].ref # 0
    /\ IF outcome = "value"
       THEN tasks' = [tasks EXCEPT ![i].pc = "resolved", ![i].ref = 0]
       ELSE tasks' = [tasks EXCEPT ![i].pc = "raised", ![i].ref = 0]
    /\ UNCHANGED <<task_id_counter, result_pool, agent_pool, calls, created>>
    /\ response' = NoResp
    /\ UNCHANGED fixed

\* a worker that enters reply only when no other task of the same agent is
\* inside reply
WorkerBeginSerialized(i) ==
    /\ tasks[i].pc \in {"start", "resolved"}
    /\ tasks[i].ref = 0
    /\ \A k \in 1..Len(tasks) :
          (k # i /\ tasks[k].agent_id = tasks[i].agent_id) => tasks[k].pc # "reply"
    /\ LET r == EDRead(result_pool, tasks[i].task_id) IN
       /\ result_pool' = r.dict
       /\ IF r.val = None
          THEN tasks' = [tasks EXCEPT ![i].pc = "raised"]
          ELSE tasks' = [tasks EXCEPT ![i].pc = "reply", ![i].cond = r.val,
                            ![i].found = agent_exists(agent_pool, tasks[i].agent_id)]
    /\ UNCHANGED <<task_id_counter, agent_pool, calls, created>>
    /\ response' = NoResp
    /\ UNCHANGED fixed

\* a worker that calls reply with the PlaceholderMessage as it came
WorkerBeginUnresolved(i) ==
    /\ tasks[i].pc \in {"start", "resolved"}
    /\ LET r == EDRead(result_pool, tasks[i].task_id) IN
       /\ result_pool' = r.dict
       /\ IF r.val = None
          THEN tasks' = [tasks EXCEPT ![i].pc = "raised"]
          ELSE tasks' = [tasks EXCEPT ![i].pc = "reply", ![i].cond = r.val,
                            ![i].found = agent_exists(agent_pool, tasks[i].agent_id)]
    /\ UNCHANGED <<task_id_counter, agent_pool, calls, created>>
    /\ response' = NoResp
    /\ UNCHANGED fixed

\* a worker that looks the agent up before the try
WorkerBeginLookupOutsideTry(i) ==
    /\ tasks[i].pc \in {"start", "resolved"}
    /\ tasks[i].ref = 0
    /\ LET r == EDRead(result_pool, tasks[i].task_id) IN
       /\ result_pool' = r.dict
       /\ IF r.val = None \/ ~agent_exists(agent_pool, tasks[i].agent_id)
          THEN tasks' = [tasks EXCEPT ![i].pc = "raised"]
          ELSE tasks' = [tasks EXCEPT ![i].pc = "reply", ![i].cond = r.val,
                            ![i].found = TRUE]
    /\ UNCHANGED <<task_id_counter, agent_pool, calls, created>>
    /\ response' = NoResp
    /\ UNCHANGED fixed

\* cond = self.result_pool[task_id] (outside the try: KeyError leaves the
\* worker), then, inside the try, the lookup self.agent_pool[agent_id] and
\* the call of reply
WorkerBegin(i) ==
    /\ tasks[i].pc \in {"start", "resolved"}
    /\ tasks[i].ref = 0
    /\ LET r == EDRead(result_pool, tasks[i].task_id) IN
       /\ result_pool' = r.dict
       /\ IF r.val = None
          THEN tasks' = [tasks EXCEPT ![i].pc = "raised"]
          ELSE tasks' = [tasks EXCEPT ![i].pc = "reply", ![i].cond = r.val,
                            ![i].found = agent_exists(agent_pool, tasks[i].agent_id)]
    /\ UNCHANGED <<task_id_counter, agent_pool, calls, created>>
    /\ response' = NoResp
    /\ UNCHANGED fixed

\* a worker without the except branch
WorkerResultUncaught(task, outcome) ==
    IF task.found /\ outcome = "return" THEN AgentMsg(task.agent_id) ELSE None

\* what the worker stores for the task: the agent's reply, or the ERROR Msg
\* of the except branch (reply raised, or the agent was not in the registry)
WorkerResult(task, outcome) ==
    IF task.found /\ outcome = "return" THEN AgentMsg(task.agent_id) ELSE ErrorMsg

\* reply returns or raises; self.result_pool[task_id] = result / Msg(ERROR)
WorkerStore(i, outcome) ==
    /\ tasks[i].pc = "reply"
    /\ ~tasks[i].found => outcome = "raise"
    /\ result_pool' = EDSetItem(result_pool, tasks[i].task_id,
                                WorkerResult(tasks[i], outcome))
    /\ tasks' = [tasks EXCEPT ![i].pc = "notify", ![i].found = FALSE,
                              ![i].result = outcome]
    /\ UNCHANGED <<task_id_counter, agent_pool, calls, created>>
    /\ response' = NoResp
    /\ UNCHANGED fixed

\* with cond: cond.notify_all(): every thread waiting on cond wakes up
WorkerNotify(i) ==
    /\ tasks[i].pc = "notify"
    /\ tasks' = [tasks EXCEPT ![i].pc = "done", ![i].cond = None]
    /\ calls' = [c \in Callers |->
                   IF calls[c].pc = "get_waiting" /\ Condition(calls[c].local) = tasks[i].cond
                   THEN [calls[c] EXCEPT !.pc = "_get", !.local = 0]
                   ELSE calls[c]]
    /\ response' = NoResp
    /\ UNCHANGED <<task_id_counter, result_pool, agent_pool, created>>
    /\ UNCHANGED fixed

(***************************************************************************)
(* Time: every record of the pool grows one tick older.                    *)
(***************************************************************************)
Older(e) ==
    [e EXCEPT !.age = IF e.age < max_timeout_seconds THEN e.age + 1 ELSE e.age]

\* a pool whose records do not age
TickNever ==
    /\ FALSE
    /\ UNCHANGED vars

Tick ==
    /\ \E j \in 1..Len(result_pool) : Live(result_pool[j])
    /\ result_pool' = [j \in 1..Len(result_pool) |-> Older(result_pool[j])]
    /\ response' = NoResp
    /\ UNCHANGED <<task_id_counter, agent_pool, tasks, calls, created>>
    /\ UNCHANGED fixed

(***************************************************************************)
(* RpcAgentServerLauncher in sub-process mode: the parent (launch and      *)
(* shutdown), the child process running setup_rpc_agent_server_async, the  *)
(* pipe and the two events between them, and the ports of the host.        *)
(***************************************************************************)
Ports == {"p1", "p2", "p3"}
NoPort == "None"

\* what the steps of the launcher leave alone: the servicer
servicer == <<task_id_counter, result_pool, agent_pool, tasks, calls, response,
              created, max_len>>

\* find_available_port(): some port the system can still bind
find_available_port(taken) == Ports \ taken

\* check_port(port): the ports it may return; the probe connect_ex succeeds
\* on the ports where a process listens (occupied), not on the ports that
\* are only held (held)
check_port(port, occupied, held) ==
    IF port = NoPort THEN find_available_port(occupied \cup held)
    ELSE IF port \in occupied THEN find_available_port(occupied \cup held)
    ELSE {port}

\* RpcAgentServerLauncher.__init__: self.port = check_port(port)
Launcher(port, occupied, held) ==
    [pc |-> "idle",            \* where the parent is
     port |-> port,            \* self.port
     server |-> "None",        \* self.server: None or the child process
     stop_event |-> "None",    \* self.stop_event: None or an Event
     stop_set |-> FALSE,       \* the stop Event the child holds is set
     start_set |-> FALSE,      \* start_event is set
     pipe |-> << >>,           \* what the child has sent and the parent not received
     child |-> "none",         \* where the child process is
     child_port |-> NoPort,    \* the port the server of the child is bound to
     passed |-> NoPort,        \* the port the parent passed to the child
     child_try |-> NoPort,     \* the variable port of the child
     failed |-> NoPort,        \* history: the port of the last bind that failed
     occupied |-> occupied,    \* the ports other processes listen on
     held |-> held,            \* the ports other processes hold without listening
     handled |-> 0,            \* RPCs the server of the child has handled
     up |-> FALSE,             \* history: launch() has returned, no shutdown() since
     shut |-> FALSE,           \* history: shutdown() has returned, no launch() since
     sets |-> 0,               \* history: calls of stop_event.set() since the last launch()
     noop |-> FALSE]           \* history: a shutdown() found no server, no launch() since

InitLauncher ==
    /\ InitPlatform(max_pool_size)
    /\ proxies = NoProxies
    /\ \E occupied \in SUBSET Ports, port \in Ports \cup {NoPort} :
          \E held \in SUBSET (Ports \ occupied) :
             /\ find_available_port(occupied \cup held) # {}
             /\ \E p \in check_port(port, occupied, held) :
                   launcher = Launcher(p, occupied, held)

\* the child process has not ended
ChildAlive == launcher.child \notin {"none", "exited", "killed"}

\* the server of the child runs handlers: from server.start() to the end
\* of server.stop(10.0)
ChildServing == launcher.child \in {"serving", "sent", "polling", "stopping"}

\* _launch_in_sub: the events, the pipe, server_process.start()
LaunchStart ==
    /\ launcher.pc = "idle"
    /\ launcher.server = "None"
    /\ ~ChildAlive
    /\ launcher' = [launcher EXCEPT !.pc = "launch_recv", !.stop_event = "Event",
                        !.stop_set = FALSE, !.start_set = FALSE, !.pipe = << >>,
                        !.child = "init", !.child_port = NoPort,
                        !.passed = launcher.port, !.child_try = launcher.port,
                        !.failed = NoPort, !.sets = 0, !.noop = FALSE, !.up = FALSE, !.shut = FALSE]
    /\ UNCHANGED <<servicer, proxies>>

\* self.port = self.parent_con.recv()
LaunchRecv ==
    /\ launcher.pc = "launch_recv"
    /\ launcher.pipe # << >>
    /\ launcher' = [launcher EXCEPT !.pc = "launch_wait", !.port = Head(launcher.pipe),
                        !.pipe = Tail(launcher.pipe)]
    /\ UNCHANGED <<servicer, proxies>>

\* start_event.wait() that returns whether or not the event is set
LaunchWaitNoEvent ==
    /\ launcher.pc = "launch_wait"
    /\ launcher' = [launcher EXCEPT !.pc = "launch_record"]
    /\ UNCHANGED <<servicer, proxies>>

\* start_event.wait()
LaunchWait ==
    /\ launcher.pc = "launch_wait"
    /\ launcher.start_set
    /\ launcher' = [launcher EXCEPT !.pc = "launch_record"]
    /\ UNCHANGED <<servicer, proxies>>

\* self.server = server_process, and launch() returns
LaunchRecord ==
    /\ launcher.pc = "launch_record"
    /\ launcher' = [launcher EXCEPT !.pc = "idle", !.server = "Process", !.up = TRUE]
    /\ UNCHANGED <<servicer, proxies>>

\* the child, in its loop: port = check_port(port)
ChildCheckPort ==
    /\ launcher.child = "init"
    /\ \E p \in check_port(launcher.child_try, launcher.occupied, launcher.held) :
          launcher' = [launcher EXCEPT !.child = "checked", !.child_try = p]
    /\ UNCHANGED <<servicer, proxies>>

\* the child: the server is created, bound to the port and started
ChildBind ==
    /\ launcher.child = "checked"
    /\ launcher.child_try \notin launcher.occupied \cup launcher.held
    /\ launcher' = [launcher EXCEPT !.child = "serving",
                        !.child_port = launcher.child_try]
    /\ UNCHANGED <<servicer, proxies>>

\* the child: the port cannot be bound, OSError is caught and the loop
\* goes round with the variable port as it is
ChildBindFail ==
    /\ launcher.child = "checked"
    /\ launcher.child_try \in launcher.occupied \cup launcher.held
    /\ launcher' = [launcher EXCEPT !.child = "init", !.failed = launcher.child_try]
    /\ UNCHANGED <<servicer, proxies>>

\* the child: pipe.send(port)
ChildSend ==
    /\ launcher.child = "serving"
    /\ launcher' = [launcher EXCEPT !.child = "sent",
                        !.pipe = Append(launcher.pipe, launcher.child_port)]
    /\ UNCHANGED <<servicer, proxies>>

\* the child: start_event.set()
ChildSignal ==
    /\ launcher.child = "sent"
    /\ launcher' = [launcher EXCEPT !.child = "polling", !.start_set = TRUE]
    /\ UNCHANGED <<servicer, proxies>>

\* the child: the loop on stop_event.is_set() ends, server.stop(10.0) begins
ChildPoll ==
    /\ launcher.child = "polling"
    /\ launcher.stop_set
    /\ launcher' = [launcher EXCEPT !.child = "stopping"]
    /\ UNCHANGED <<servicer, proxies>>

\* the child: server.stop(10.0) is over and the process ends
ChildExit ==
    /\ launcher.child = "stopping"
    /\ launcher' = [launcher EXCEPT !.child = "exited"]
    /\ UNCHANGED <<servicer, proxies>>

\* the child: the server is stopped but the process does not end (the
\* threads of the executor and of the tasks are not daemons)
ChildHang ==
    /\ launcher.child = "stopping"
    /\ launcher' = [launcher EXCEPT !.child = "hung"]
    /\ UNCHANGED <<servicer, proxies>>

\* the server of the child runs the handler of one RPC
ChildServe ==
    /\ ChildServing
    /\ launcher.handled < MaxHandled
    /\ launcher' = [launcher EXCEPT !.handled = launcher.handled + 1]
    /\ UNCHANGED <<servicer, proxies>>

\* another process of the host starts to listen on port p
OccupyPort(p) ==
    /\ p \notin launcher.occupied \cup launcher.held
    /\ p # launcher.child_port
    /\ find_available_port(launcher.occupied \cup launcher.held \cup {p}) # {}
    /\ launcher' = [launcher EXCEPT !.occupied = launcher.occupied \cup {p}]
    /\ UNCHANGED <<servicer, proxies>>

\* another process of the host binds port p and does not listen on it
HoldPort(p) ==
    /\ p \notin launcher.occupied \cup launcher.held
    /\ p # launcher.child_port
    /\ find_available_port(launcher.occupied \cup launcher.held \cup {p}) # {}
    /\ launcher' = [launcher EXCEPT !.held = launcher.held \cup {p}]
    /\ UNCHANGED <<servicer, proxies>>

\* a shutdown() that only forgets the server
ShutdownForget ==
    /\ launcher.pc = "idle"
    /\ launcher' = [launcher EXCEPT !.server = "None", !.shut = TRUE, !.up = FALSE]
    /\ UNCHANGED <<servicer, proxies>>

\* a shutdown() that does not look at self.server
ShutdownBeginUnguarded ==
    /\ launcher.pc = "idle"
    /\ launcher' = [launcher EXCEPT !.pc = "shutdown_join",
                        !.stop_set = (launcher.stop_event # "None") \/ launcher.stop_set,
                        !.sets = IF launcher.stop_event # "None"
                                 THEN launcher.sets + 1 ELSE launcher.sets,
                        !.stop_event = "None", !.up = FALSE]
    /\ UNCHANGED <<servicer, proxies>>

\* shutdown(): nothing to do without a server; else the stop event is set
\* and forgotten
ShutdownBegin ==
    /\ launcher.pc = "idle"
    /\ IF launcher.server = "None"
       THEN launcher' = [launcher EXCEPT !.shut = TRUE, !.up = FALSE, !.noop = TRUE]
       ELSE launcher' = [launcher EXCEPT !.pc = "shutdown_join",
                            !.stop_set = (launcher.stop_event # "None") \/ launcher.stop_set,
                            !.sets = IF launcher.stop_event # "None"
                                     THEN launcher.sets + 1 ELSE launcher.sets,
                            !.stop_event = "None", !.up = FALSE]
    /\ UNCHANGED <<servicer, proxies>>

\* self.server.join(): returns when the child process has ended
ShutdownJoin ==
    /\ launcher.pc = "shutdown_join"
    /\ ~ChildAlive
    /\ launcher' = [launcher EXCEPT !.pc = "shutdown_alive"]
    /\ UNCHANGED <<servicer, proxies>>

\* if self.server.is_alive(): self.server.kill(); self.server = None, and
\* shutdown() returns
ShutdownFinish ==
    /\ launcher.pc = "shutdown_alive"
    /\ launcher' = [launcher EXCEPT !.pc = "idle", !.server = "None", !.shut = TRUE,
                        !.child = IF ChildAlive THEN "killed" ELSE launcher.child]
    /\ UNCHANGED <<servicer, proxies>>

LauncherStep ==
    \/ LaunchStart
    \/ LaunchRecv
    \/ LaunchWait
    \/ LaunchRecord
    \/ ShutdownBegin
    \/ ShutdownJoin
    \/ ShutdownFinish

ChildStep ==
    \/ ChildCheckPort
    \/ ChildBind
    \/ ChildBindFail
    \/ ChildSend
    \/ ChildSignal
    \/ ChildPoll
    \/ ChildExit
    \/ ChildHang

NextLauncher ==
    \/ LauncherStep
    \/ ChildStep
    \/ ChildServe
    \/ \E p \in Ports : OccupyPort(p)
    \/ \E p \in Ports : HoldPort(p)

SpecLauncher == InitLauncher /\ [][NextLauncher]_vars

\* the parent and the child are processes that run; whether the child ends
\* after server.stop is not in the hands of the launcher
FairnessLauncher ==
    /\ WF_vars(LauncherStep)
    /\ WF_vars(ChildStep)

SpecLauncherLive == InitLauncher /\ [][NextLauncher]_vars /\ FairnessLauncher

(***************************************************************************)
(* RpcAgent: the proxies of the main process.  The first proxy is built    *)
(* without a port and owns the launcher; the others are built with a port, *)
(* by clone_instances or by the program.                                   *)
(***************************************************************************)
\* RpcAgent.__init__ up to the choice between launching and connecting
Proxy(owns, lazy_launch, port, agent_id, connect_existing) ==
    [owns |-> owns,                  \* self.server_launcher is not None
     lazy_launch |-> lazy_launch,
     port |-> port,                  \* self.port
     agent_id |-> agent_id,          \* self.agent_id
     connect_existing |-> connect_existing,
     client |-> FALSE,               \* self.client is not None
     client_port |-> NoPort,         \* the port of self.client
     client_id |-> "",               \* the agent_id of self.client
     pc |-> "init",                  \* where the main process is in a method of the proxy
     op |-> "init",                  \* the method it is in, "init" outside reply, observe
                                     \* and clone_instances
     num_instances |-> 0,
     including_self |-> FALSE,
     left |-> 0,                     \* iterations of the loop of clone_instances to come
     generated_instances |-> << >>,  \* indices in proxies
     answers |-> << >>,              \* history: the ids the `_clone_agent` RPCs of the call returned
     stopped |-> FALSE,              \* history: stop() has returned
     launches |-> 0,                 \* history: calls of server_launcher.launch()
     creates |-> 0,                  \* history: `_create_agent` RPCs sent
     clones |-> 0]                   \* history: `_clone_agent` RPCs sent by the call

\* RpcAgent.__init__ with a port: the client is opened, and `_create_agent`
\* is sent unless connect_existing
Connected(port, agent_id, connect_existing) ==
    [Proxy(FALSE, TRUE, port, agent_id, connect_existing) EXCEPT
        !.client = TRUE, !.client_port = port, !.client_id = agent_id,
        !.pc = "idle", !.creates = IF connect_existing THEN 0 ELSE 1]

\* the main process has built the launcher of an RpcAgent without port and
\* is in its __init__, before `if not lazy_launch`
InitProxy ==
    /\ InitPlatform(max_pool_size)
    /\ \E occupied \in {{}, {"p1", "p2"}} :
          \E p \in check_port(NoPort, occupied, {}) :
             launcher = Launcher(p, occupied, {})
    /\ \E lazy_launch \in BOOLEAN :
          proxies = <<Proxy(TRUE, lazy_launch, NoPort, "a1", FALSE)>>

\* the main process is inside a method of some proxy
Busy == \E j \in 1..Len(proxies) : proxies[j].pc # "idle"

\* RpcAgent.__init__, the end: `if not lazy_launch: self._launch_server()`
ProxyInit(i) ==
    /\ proxies[i].pc = "init"
    /\ proxies' = [proxies EXCEPT
          ![i].pc = IF proxies[i].lazy_launch THEN "idle" ELSE "launch_call",
          ![i].launches = IF proxies[i].lazy_launch THEN 0 ELSE 1]
    /\ UNCHANGED <<servicer, launcher>>

\* the proxies a call of clone_instances constructs
Generated(num_instances, including_self) ==
    IF including_self
    THEN (IF num_instances > 0 THEN num_instances - 1 ELSE 0)
    ELSE num_instances

\* a method that launches the server without a look at self.client
ProxyCallAlwaysLaunch(i, op, num_instances, including_self) ==
    /\ ~Busy
    /\ Len(proxies) + Generated(num_instances, including_self) <= MaxProxies
    /\ proxies' = [proxies EXCEPT
          ![i].op = op,
          ![i].num_instances = num_instances,
          ![i].including_self = including_self,
          ![i].pc = IF proxies[i].owns THEN "launch_call" ELSE "body",
          ![i].launches = IF proxies[i].owns THEN proxies[i].launches + 1
                          ELSE proxies[i].launches]
    /\ UNCHANGED <<servicer, launcher>>

\* reply, observe, clone_instances, the beginning:
\* `if self.client is None: self._launch_server()`
ProxyCall(i, op, num_instances, including_self) ==
    /\ ~Busy
    /\ Len(proxies) + Generated(num_instances, including_self) <= MaxProxies
    /\ proxies' = [proxies EXCEPT
          ![i].op = op,
          ![i].num_instances = num_instances,
          ![i].including_self = including_self,
          ![i].pc = IF proxies[i].client THEN "body" ELSE "launch_call",
          ![i].launches = IF proxies[i].client THEN proxies[i].launches
                          ELSE proxies[i].launches + 1]
    /\ UNCHANGED <<servicer, launcher>>

\* RpcAgentServerLauncher.launch, called by _launch_server
launch ==
    /\ \E i \in 1..Len(proxies) : proxies[i].pc = "launch_call"
    /\ LaunchStart

\* _launch_server once launch() has returned: the port of the launcher is
\* taken over, the client is opened and `_create_agent` is sent
ProxyLaunched(i) ==
    /\ proxies[i].pc = "launch_call"
    /\ launcher.pc = "idle"
    /\ launcher.up
    /\ proxies' = [proxies EXCEPT
          ![i].port = launcher.port,
          ![i].client = TRUE,
          ![i].client_port = launcher.port,
          ![i].client_id = proxies[i].agent_id,
          ![i].creates = proxies[i].creates + 1,
          ![i].pc = IF proxies[i].op = "init" THEN "idle" ELSE "body"]
    /\ UNCHANGED <<servicer, launcher>>

\* reply: the PlaceholderMessage of the call is returned
ProxyReply(i) ==
    /\ proxies[i].pc = "body"
    /\ proxies[i].op = "reply"
    /\ proxies' = [proxies EXCEPT ![i].pc = "idle", ![i].op = "init"]
    /\ UNCHANGED <<servicer, launcher>>

\* observe: `_observe` is sent
ProxyObserve(i) ==
    /\ proxies[i].pc = "body"
    /\ proxies[i].op = "observe"
    /\ proxies' = [proxies EXCEPT ![i].pc = "idle", ![i].op = "init"]
    /\ UNCHANGED <<servicer, launcher>>

\* clone_instances: generated_instance_number, and the list that begins
\* with the proxy itself if including_self; range() of a negative number
\* is empty
ProxyCloneBegin(i) ==
    /\ proxies[i].pc = "body"
    /\ proxies[i].op = "clone_instances"
    /\ LET generated_instance_number ==
              IF proxies[i].including_self THEN proxies[i].num_instances - 1
              ELSE proxies[i].num_instances
       IN  proxies' = [proxies EXCEPT
             ![i].pc = "clone_loop",
             ![i].left = IF generated_instance_number > 0
                         THEN generated_instance_number ELSE 0,
             ![i].generated_instances =
                 IF proxies[i].including_self THEN <<i>> ELSE << >>]
    /\ UNCHANGED <<servicer, launcher>>

\* the agent_id a `_clone_agent` RPC of the client may return
CloneAnswers(agent_id) == AgentIds \ {agent_id}

\* clone_instances, one iteration: `_clone_agent` is sent and a proxy is
\* built on the port of this one for the agent_id the RPC returned
ProxyCloneRpc(i) ==
    /\ proxies[i].pc = "clone_loop"
    /\ proxies[i].left > 0
    /\ \E new_agent_id \in CloneAnswers(proxies[i].client_id) :
          proxies' = Append(
             [proxies EXCEPT
                ![i].left = proxies[i].left - 1,
                ![i].clones = proxies[i].clones + 1,
                ![i].answers = Append(proxies[i].answers, new_agent_id),
                ![i].generated_instances =
                    Append(proxies[i].generated_instances, Len(proxies) + 1)],
             Connected(proxies[i].port, new_agent_id, TRUE))
    /\ UNCHANGED <<servicer, launcher>>

\* clone_instances: `return generated_instances`
ProxyCloneReturn(i) ==
    /\ proxies[i].pc = "clone_loop"
    /\ proxies[i].left = 0
    /\ proxies' = [proxies EXCEPT
          ![i].pc = "idle",
          ![i].op = "init",
          ![i].num_instances = 0,
          ![i].including_self = FALSE,
          ![i].generated_instances = << >>,
          ![i].answers = << >>,
          ![i].clones = 0]
    /\ UNCHANGED <<servicer, launcher>>

\* a stop that calls shutdown() whoever owns the server
ProxyStopAlways(i) ==
    /\ ~Busy
    /\ proxies' = [proxies EXCEPT ![i].pc = "stop_call"]
    /\ UNCHANGED <<servicer, launcher>>

\* stop (and __del__): `if self.server_launcher is not None:
\* self.server_launcher.shutdown()`
ProxyStop(i) ==
    /\ ~Busy
    /\ proxies' = [proxies EXCEPT
          ![i].pc = IF proxies[i].owns THEN "stop_call" ELSE "idle",
          ![i].stopped = IF proxies[i].owns THEN proxies[i].stopped ELSE TRUE]
    /\ UNCHANGED <<servicer, launcher>>

\* RpcAgentServerLauncher.shutdown, called by stop
shutdown ==
    /\ \E i \in 1..Len(proxies) : proxies[i].pc = "stop_call"
    /\ ShutdownBegin

\* stop: shutdown() has returned
ProxyStopped(i) ==
    /\ proxies[i].pc = "stop_call"
    /\ launcher.pc = "idle"
    /\ launcher.shut
    /\ proxies' = [proxies EXCEPT ![i].pc = "idle", ![i].stopped = TRUE]
    /\ UNCHANGED <<servicer, launcher>>

\* the program builds an RpcAgent with a port
ProxyConnect(port, agent_id, connect_existing) ==
    /\ ~Busy
    /\ Len(proxies) < MaxProxies
    /\ proxies' = Append(proxies, Connected(port, agent_id, connect_existing))
    /\ UNCHANGED <<servicer, launcher>>

ProxyStep(i) ==
    \/ ProxyInit(i)
    \/ ProxyCall(i, "reply", 0, FALSE)
    \/ ProxyCall(i, "observe", 0, FALSE)
    \/ \E num_instances \in 0..MaxInstances, including_self \in BOOLEAN :
          ProxyCall(i, "clone_instances", num_instances, including_self)
    \/ ProxyLaunched(i)
    \/ ProxyReply(i)
    \/ ProxyObserve(i)
    \/ ProxyCloneBegin(i)
    \/ ProxyCloneRpc(i)
    \/ ProxyCloneReturn(i)
    \/ ProxyStop(i)
    \/ ProxyStopped(i)

NextProxy ==
    \/ \E i \in 1..Len(proxies) : ProxyStep(i)
    \/ \E connect_existing \in BOOLEAN : ProxyConnect("p1", "a2", connect_existing)
    \/ launch
    \/ LaunchRecv
    \/ LaunchWait
    \/ LaunchRecord
    \/ shutdown
    \/ ShutdownJoin
    \/ ShutdownFinish
    \/ ChildStep
    \/ OccupyPort("p3")

SpecProxy == InitProxy /\ [][NextProxy]_vars

(***************************************************************************)
(* The requests the clients send.                                          *)
(***************************************************************************)
\* `value` of a request for target_func f: the blob of `_create_agent`
Values(f) == IF f = "_create_agent" THEN CreateValues ELSE {""}

\* what the `value` of the other requests refers to: the task id of a
\* `_get`; for `_reply` and `_observe` a plain Msg (0) or a
\* PlaceholderMessage (1)
Refs(f) ==
    IF f = "_get" THEN 1..MaxTasks
    ELSE IF f \in {"_reply", "_observe"} THEN {0, 1}
    ELSE {0}

\* thread c sends one request: a target_func of `funcs` for an agent of
\* `agents`; at most `max_tasks` `_reply` requests are sent in all
Request(c, funcs, agents, max_tasks) ==
    \E f \in funcs, a \in agents :
        \E v \in Values(f), r \in Refs(f) :
            /\ f = "_reply" => Len(tasks) + PendingAlloc < max_tasks
            /\ call_func(c, f, a, v, r)

RegistryHandler(c) ==
    \/ DeleteAgent(c)
    \/ CloneLookup(c)
    \/ CloneInsert(c)

ReplyHandler(c) ==
    \/ ReplyAlloc(c)
    \/ ReplyInsert(c)
    \/ ReplySubmit(c)
    \/ ReplyReturn(c)

GetHandler(c) ==
    \/ GetRead(c)
    \/ GetWait(c)
    \/ GetTimeout(c)

ObserveHandler(c) ==
    \/ \E outcome \in ResolveOutcomes : ObserveResolve(c, outcome)
    \/ ObserveDeliver(c)

Worker(i) ==
    \/ \E outcome \in ResolveOutcomes : WorkerResolve(i, outcome)
    \/ WorkerBegin(i)
    \/ \E outcome \in {"return", "raise"} : WorkerStore(i, outcome)
    \/ WorkerNotify(i)

(***************************************************************************)
(* Spec: the task pipeline.  One client thread creates an agent and sends   *)
(* `_reply` requests for it, the other sends `_get` requests for task ids; *)
(* the workers run and time passes.                                        *)
(***************************************************************************)
TaskFuncs(c) ==
    IF c = "c1" THEN {"_create_agent", "_reply"} ELSE {"_get"}

TaskAgents == {"a1"}

Next ==
    \/ \E c \in Callers : Request(c, TaskFuncs(c), TaskAgents, MaxTasks)
    \/ \E c \in Callers : ReplyHandler(c)
    \/ \E c \in Callers : GetHandler(c)
    \/ \E i \in 1..Len(tasks) : Worker(i)
    \/ Tick

Spec == Init /\ [][Next]_vars


(***************************************************************************)
(* SpecAlloc: both client threads send `_reply` requests, so that two      *)
(* handlers allocate task ids concurrently.  The allocation does not read  *)
(* the clock: the runs of SpecAlloc are those in which no record expires.  *)
(***************************************************************************)
AllocFuncs(c) ==
    IF c = "c1" THEN {"_create_agent", "_reply"} ELSE {"_reply"}

NextAlloc ==
    \/ \E c \in Callers : Request(c, AllocFuncs(c), TaskAgents, MaxTasks)
    \/ \E c \in Callers : ReplyHandler(c)
    \/ \E i \in 1..Len(tasks) : Worker(i)

SpecAlloc == Init /\ [][NextAlloc]_vars

(***************************************************************************)
(* SpecRegistry: the dispatch and the agent registry.  One client thread   *)
(* sends every target_func for both agent ids, the other creates and       *)
(* deletes an agent concurrently.  The registry does not read the clock:   *)
(* the runs of SpecRegistry are those in which no record expires.          *)
(***************************************************************************)
RegistryFuncs(c) ==
    IF c = "c1" THEN TargetFuncs ELSE {"_create_agent", "_delete_agent"}

RegistryAgents(c) == IF c = "c1" THEN AgentIds ELSE TaskAgents

NextRegistry ==
    \/ \E c \in Callers :
          Request(c, RegistryFuncs(c), RegistryAgents(c), MaxRegistryTasks)
    \/ \E c \in Callers : RegistryHandler(c)
    \/ \E c \in Callers : ReplyHandler(c)
    \/ \E c \in Callers : GetHandler(c)
    \/ \E c \in Callers : ObserveHandler(c)
    \/ \E i \in 1..Len(tasks) : Worker(i)

SpecRegistry == Init /\ [][NextRegistry]_vars

(***************************************************************************)
(* SpecLive: the task pipeline under fair scheduling.  Every handler       *)
(* thread and every worker of the executor that can take a step eventually *)
(* takes it, and time passes.  Clients are not obliged to send requests.   *)
(***************************************************************************)
Fairness ==
    /\ \A c \in Callers : WF_vars(ReplyHandler(c))
    /\ \A c \in Callers : WF_vars(GetHandler(c))
    /\ \A i \in 1..MaxTasks : WF_vars(i \in 1..Len(tasks) /\ Worker(i))
    /\ WF_vars(Tick)

SpecLive == Init /\ [][Next]_vars /\ Fairness


(***************************************************************************)
(* SpecPool: the task pipeline of Spec on a platform whose result pool has *)
(* one more slot, so that a record can be inserted into a full pool that   *)
(* holds several records.                                                  *)
(***************************************************************************)
PoolSlots == max_pool_size + 1

InitPool ==
    /\ InitPlatform(PoolSlots)
    /\ launcher = NoLauncher
    /\ proxies = NoProxies

SpecPool == InitPool /\ [][Next]_vars

(***************************************************************************)
(* SpecCreate: creations of agents of two classes.  Each client thread     *)
(* creates agents of its own class, under both ids, and deletes them, so   *)
(* that a creation meets an instance another thread has registered.        *)
(***************************************************************************)
ClassOf(c) == IF c = "c1" THEN "Echo" ELSE "Echo2"

NextCreate ==
    \/ \E c \in Callers, a \in AgentIds :
          call_func(c, "_create_agent", a, ClassOf(c), 0)
    \/ \E c \in Callers, a \in AgentIds :
          call_func(c, "_delete_agent", a, "", 0)
    \/ \E c \in Callers, a \in AgentIds :
          call_func(c, "_clone_agent", a, "", 0)
    \/ \E c \in Callers : RegistryHandler(c)

SpecCreate == Init /\ [][NextCreate]_vars

(***************************************************************************)
(* SpecChain: a deferred chain on one server.  The client sends            *)
(* A.reply(m), which is task 1, and hands the PlaceholderMessage of task 1 *)
(* to `_reply` and `_observe` of B.  The resolution of that placeholder is *)
(* a `_get` of task 1 on this server.                                      *)
(***************************************************************************)
\* PlaceholderMessage.update_value for a placeholder of this server: the
\* `_get` of its task, which waits while the record is the Condition,
\* fails when the record is missing and else returns the stored Msg
update_value(pool, task_id) ==
    LET r == EDRead(pool, task_id) IN
    [outcome |-> IF r.val.kind = "Condition" THEN "wait"
                 ELSE IF r.val = None THEN "RpcError"
                 ELSE "value",
     dict |-> r.dict]

\* process_messages: task_msg.update_value() of a placeholder of this server
WorkerResolveOwn(i) ==
    /\ tasks[i].pc = "start"
    /\ tasks[i].ref # 0
    /\ LET u == update_value(result_pool, tasks[i].ref) IN
       /\ u.outcome # "wait"
       /\ result_pool' = u.dict
       /\ tasks' = [tasks EXCEPT
             ![i].pc = IF u.outcome = "value" THEN "resolved" ELSE "raised",
             ![i].ref = 0]
    /\ UNCHANGED <<task_id_counter, agent_pool, calls, created>>
    /\ response' = NoResp
    /\ UNCHANGED fixed

\* _observe: msg.update_value() of a placeholder of this server
ObserveResolveOwn(c) ==
    /\ calls[c].pc = "_observe"
    /\ calls[c].ref # 0
    /\ LET u == update_value(result_pool, calls[c].ref) IN
       /\ u.outcome # "wait"
       /\ result_pool' = u.dict
       /\ IF u.outcome = "value"
          THEN Goto(c, "observe_deliver")
          ELSE Return(c, Resp("EXCEPTION", "RpcError"))
    /\ UNCHANGED <<task_id_counter, agent_pool, tasks, created>>
    /\ UNCHANGED fixed

\* the requests of the chain: the agents are created, A.reply(m) is sent
\* first, and what is sent to B carries the placeholder of task 1
ChainRequest(c) ==
    \/ \E a \in AgentIds : call_func(c, "_create_agent", a, "Echo", 0)
    \/ /\ Len(tasks) + PendingAlloc = 0
       /\ call_func(c, "_reply", "a1", "", 0)
    \/ /\ Len(tasks) >= 1
       /\ Len(tasks) + PendingAlloc < MaxTasks
       /\ call_func(c, "_reply", "a2", "", 1)
    \/ /\ Len(tasks) >= 1
       /\ call_func(c, "_observe", "a2", "", 1)

NextChain ==
    \/ ChainRequest("c1")
    \/ ReplyHandler("c1")
    \/ ObserveResolveOwn("c1")
    \/ ObserveDeliver("c1")
    \/ \E i \in 1..Len(tasks) : WorkerResolveOwn(i)
    \/ \E i \in 1..Len(tasks) : WorkerBegin(i)
    \/ \E i \in 1..Len(tasks), outcome \in {"return", "raise"} : WorkerStore(i, outcome)
    \/ \E i \in 1..Len(tasks) : WorkerNotify(i)
    \/ Tick

SpecChain == InitPool /\ [][NextChain]_vars

(***************************************************************************)
(* Properties.                                                             *)
(***************************************************************************)
\* the record of task id t is in the pool and readable
Readable(t) ==
    \E j \in 1..Len(result_pool) :
        result_pool[j].key = t /\ result_pool[j].age < max_timeout_seconds

\* the record of task id t is readable and still the pending Condition
PendingRecord(t) ==
    \E j \in 1..Len(result_pool) :
        /\ result_pool[j].key = t
        /\ result_pool[j].age < max_timeout_seconds
        /\ result_pool[j].val.kind = "Condition"

\* thread c is inside the loop of `_get`
InGetLoop(c) == calls[c].pc \in {"_get", "get_wait", "get_waiting"}

\* C1: the task ids handed out by `_reply` are strictly increasing in the
\* order of their allocation (hence never repeated) and are the values the
\* counter went through, whether the `_reply` calls are serial or concurrent.
TaskIdsStrictlyIncreasing ==
    /\ \A i, j \in 1..Len(tasks) : i < j => tasks[i].task_id < tasks[j].task_id
    /\ \A i \in 1..Len(tasks) : tasks[i].task_id \in 1..task_id_counter
    /\ (response.func = "_reply" /\ response.status = "OK") =>
           \E i \in 1..Len(tasks) : tasks[i].task_id = response.task_id

\* two `_reply` handlers run concurrently and both hold their task id
TwoConcurrentAllocations ==
    /\ calls["c1"].pc = "reply_insert"
    /\ calls["c2"].pc = "reply_insert"
    /\ calls["c1"].local # calls["c2"].local

\* C2 (as the spec states it): no `_get` fails the RPC; a `_get` for a task
\* id that is absent from the pool returns an ERROR Msg.
GetNeverFails ==
    response.func = "_get" => response.status = "OK"

\* C3 (as the spec states it): a target_func that is none of the six handler
\* names is answered INVALID_ARGUMENT "Unsupported method".
NonHandlerIsUnsupported ==
    response.func \in TargetFuncs \ Handlers =>
        response.status = "INVALID_ARGUMENT" /\ response.detail = "Unsupported method"


\* the step answered a request "Agent not exists"
RejectedForMissingAgent ==
    response.status = "INVALID_ARGUMENT" /\ response.detail = "Agent not exists"

\* C4: a request for `_reply`, `_observe`, `_clone_agent` or `_delete_agent`
\* whose agent_id is not in the registry is answered "Agent not exists" and
\* never enters its handler; a step that answers "Agent not exists" changes
\* neither the task counter, the result pool, the submitted tasks, the
\* registry nor any thread; `_create_agent` and `_get` are never answered so.
MissingAgentRejected ==
    [][/\ RejectedForMissingAgent' =>
            /\ response'.func \notin {"_create_agent", "_get"}
            /\ agent_pool[response'.agent_id] = NoAgent
            /\ UNCHANGED <<task_id_counter, result_pool, tasks, agent_pool, calls>>
       /\ \A c \in Callers :
            (/\ calls[c].pc = "idle"
             /\ calls'[c].pc \in {"_reply", "_observe", "_clone_agent", "_delete_agent"})
            => agent_pool[calls'[c].agent_id] # NoAgent
       /\ \A c \in Callers :
            (/\ calls[c].pc = "idle"
             /\ response'.caller = c
             /\ response'.func \in {"_reply", "_observe", "_clone_agent", "_delete_agent"})
            => RejectedForMissingAgent' /\ agent_pool[response'.agent_id] = NoAgent
      ]_vars

\* a `_reply` for an agent that is not in the registry was rejected
ReplyRejectedForMissingAgent ==
    /\ RejectedForMissingAgent
    /\ response.func = "_reply"
    /\ agent_pool[response.agent_id] = NoAgent

\* C5: an id whose `_create_agent` has returned, with no `_delete_agent` of
\* the id since, is in the registry, and no request on it is answered
\* "Agent not exists", whatever happens to the other ids.
CreatedAgentIsKnown ==
    /\ \A a \in created : agent_pool[a] # NoAgent
    /\ RejectedForMissingAgent => response.agent_id \notin created

\* a `_reply` on a created id is answered OK while another id is registered
\* too
CreatedAgentServed ==
    /\ response.func = "_reply"
    /\ response.status = "OK"
    /\ response.agent_id \in created
    /\ \E a \in AgentIds \ {response.agent_id} : agent_pool[a] # NoAgent


\* C6: when reply raises in the worker of a task, the worker goes on to its
\* notify step (the exception does not leave it) and the record of the task
\* is the Msg named "ERROR" with role "assistant" and status "ERROR"; the
\* notify step that follows wakes every thread waiting on the task's
\* condition; and a `_get` that reads this record answers OK with it.
ReplyFailureStored ==
    [][/\ \A i \in 1..Len(tasks) :
            /\ (tasks[i].pc = "reply" /\ tasks'[i].pc # "reply") =>
                   /\ tasks'[i].pc = "notify"
                   /\ tasks'[i].result = "raise" =>
                          \E j \in 1..Len(result_pool') :
                              /\ result_pool'[j].key = tasks[i].task_id
                              /\ result_pool'[j].age = 0
                              /\ result_pool'[j].val.kind = "Msg"
                              /\ result_pool'[j].val.name = "ERROR"
                              /\ result_pool'[j].val.role = "assistant"
                              /\ result_pool'[j].val.status = "ERROR"
            /\ tasks[i].pc = "notify" =>
                   /\ tasks'[i].pc \in {"notify", "done"}
                   /\ tasks'[i].pc = "done" =>
                          \A c \in Callers :
                              (calls[c].pc = "get_waiting" /\ calls[c].local = i)
                              => calls'[c].pc = "_get"
       /\ \A c \in Callers, j \in 1..Len(result_pool) :
            (/\ calls[c].pc = "_get"
             /\ calls'[c].pc = "idle"
             /\ result_pool[j].key = calls[c].ref
             /\ result_pool[j].age < max_timeout_seconds
             /\ result_pool[j].val = ErrorMsg)
            => /\ response'.caller = c
               /\ response'.status = "OK"
               /\ response'.msg = ErrorMsg
      ]_vars

\* reply raised in a task, its worker has finished, and a `_get` for the
\* task has been answered OK with the ERROR Msg
ReplyFailureRead ==
    /\ response.func = "_get"
    /\ response.status = "OK"
    /\ response.msg = ErrorMsg
    /\ \E i \in 1..Len(tasks) :
          /\ tasks[i].task_id = response.ref
          /\ tasks[i].result = "raise"
          /\ tasks[i].pc = "done"

\* C7 (as the spec states it): no exception leaves a worker.
NoErrorLeavesWorker ==
    \A i \in 1..Len(tasks) : tasks[i].pc # "raised"

\* C8: under fair scheduling, a task whose record is pending in the pool
\* does not stay so for ever: the record becomes a result or leaves the pool
\* by capacity or by age.
NoTaskPendingForever ==
    \A t \in 1..MaxTasks : PendingRecord(t) ~> ~PendingRecord(t)

\* the worker of a task was left by an exception, and the pending record
\* of the task has expired by age
FailedTaskExpired ==
    \E i \in 1..Len(tasks), j \in 1..Len(result_pool) :
        /\ tasks[i].pc = "raised"
        /\ result_pool[j].key = tasks[i].task_id
        /\ result_pool[j].val.kind = "Condition"
        /\ result_pool[j].age = max_timeout_seconds

\* C9 (as the spec states it): once the record of a submitted task has left
\* the pool, by capacity or by age, it never becomes readable again.
EvictedStaysEvicted ==
    [][\A i \in 1..Len(tasks) :
          (tasks[i].pc # "new" /\ ~Readable(tasks[i].task_id))
          => ~Readable(tasks[i].task_id)']_vars

\* C10: under fair scheduling, a thread inside the loop of `_get` leaves it,
\* also when the worker notified before the thread began to wait.
GetLeavesLoop ==
    \A c \in Callers : InGetLoop(c) ~> ~InGetLoop(c)

\* the missed notification: a thread has fetched the pending condition of a
\* task and is about to wait on it, and the worker has stored the result
\* and has notified already
MissedNotification ==
    \E c \in Callers :
        /\ calls[c].pc = "get_wait"
        /\ tasks[calls[c].local].pc = "done"
        /\ Readable(calls[c].ref)
        /\ ~PendingRecord(calls[c].ref)


\* thread c is inside `_reply`
InReply(c) ==
    calls[c].pc \in {"_reply", "reply_insert", "reply_submit", "reply_return"}

TasksNotSerialized ==
    \A i \in 1..Len(tasks) :
        /\ (tasks[i].pc \in {"start", "resolved"} /\ tasks[i].ref = 0)
              => ENABLED WorkerBegin(i)
        /\ tasks[i].pc = "reply" => ENABLED WorkerStore(i, "raise")
        /\ (tasks[i].pc = "reply" /\ tasks[i].found)
              => ENABLED WorkerStore(i, "return")

\* two tasks of the same agent are inside reply at the same time
TwoTasksInsideReply ==
    \E i, j \in 1..Len(tasks) :
        /\ i < j
        /\ tasks[i].agent_id = tasks[j].agent_id
        /\ tasks[i].pc = "reply"
        /\ tasks[j].pc = "reply"


\* the step has written the record of task id k
Written(k) ==
    \E j \in 1..Len(result_pool') :
        /\ result_pool'[j].key = k
        /\ result_pool'[j].age = 0
        /\ \A m \in 1..Len(result_pool) : result_pool[m] # result_pool'[j]

\* C13 (as the spec states it): the pool never holds more records than its
\* capacity, and a step that writes a record into a full pool leaves the
\* record in the pool and removes no record of another task but one of
\* earliest insertion time, that is, of greatest age.
OnlyOldestEvicted ==
    [][/\ Len(result_pool') <= max_len
       /\ \A k \in 1..Len(tasks) :
            (Len(result_pool) = max_len /\ Written(k)) =>
                \A j \in 1..Len(result_pool) :
                    (/\ result_pool[j].key # k
                     /\ \A m \in 1..Len(result_pool') :
                           result_pool'[m].key # result_pool[j].key)
                    => \A m \in 1..Len(result_pool) :
                           result_pool[m].age <= result_pool[j].age
      ]_vars


\* C14: a `_create_agent` for an id that is in the registry answers OK and
\* leaves the registry as it is, the instance of the id included; one for
\* an id that is not in the registry registers exactly one instance, of the
\* class the request names, under that id.  So of several creations of one
\* id, concurrent or not, only the first constructs an instance.
CreateIsIdempotent ==
    [][\A c \in Callers :
          (/\ calls[c].pc = "idle"
           /\ response'.caller = c
           /\ response'.func = "_create_agent")
          => /\ response'.status = "OK"
             /\ IF agent_pool[response'.agent_id] # NoAgent
                THEN agent_pool' = agent_pool
                ELSE agent_pool' = [agent_pool EXCEPT ![response'.agent_id] =
                        [agent_id |-> response'.agent_id, class_name |-> ClassOf(c)]]
      ]_vars

\* a creation was answered OK for an id that holds an instance of the
\* other thread's class
CreateMetExistingInstance ==
    /\ response.func = "_create_agent"
    /\ response.status = "OK"
    /\ agent_pool[response.agent_id] # NoAgent
    /\ agent_pool[response.agent_id].class_name # ClassOf(response.caller)


\* C15: a `_create_agent` that fails (the blob is empty, the class is not
\* registered) raises, and leaves the registry exactly as it was, without
\* an entry for the id; after it, creations and deletions and the lookup of
\* a clone are not blocked.
FailedCreateChangesNothing ==
    /\ [][(response'.func = "_create_agent" /\ response'.status # "OK")
           => /\ response'.status = "EXCEPTION"
              /\ agent_pool' = agent_pool
              /\ agent_pool[response'.agent_id] = NoAgent
              /\ created' = created]_vars
    /\ [](\A c \in Callers :
            /\ calls[c].pc = "idle" =>
                  \A a \in AgentIds : ENABLED call_func(c, "_create_agent", a, "Echo", 0)
            /\ calls[c].pc = "_delete_agent" => ENABLED DeleteAgent(c)
            /\ calls[c].pc = "_clone_agent" => ENABLED CloneLookup(c))

\* a creation of an unregistered class has raised while the other id is
\* registered
CreateFailed ==
    /\ response.func = "_create_agent"
    /\ response.status = "EXCEPTION"
    /\ response.detail = "UnknownClass"
    /\ \E a \in AgentIds : agent_pool[a] # NoAgent


\* C16: a `_clone_agent` that answers OK returns an id that is not the id
\* of its source and is not in the registry, registers under that id one
\* instance of the class of the source, and changes no other entry of the
\* registry.
CloneAddsOneEntry ==
    [][(response'.func = "_clone_agent" /\ response'.status = "OK")
       => /\ response'.new_id \in AgentIds
          /\ response'.new_id # response'.agent_id
          /\ agent_pool[response'.new_id] = NoAgent
          /\ agent_pool'[response'.new_id].agent_id = response'.new_id
          /\ agent_pool'[response'.new_id].class_name \in RegisteredClasses
          /\ \A a \in AgentIds \ {response'.new_id} : agent_pool'[a] = agent_pool[a]
      ]_vars

\* a clone was registered while its source is still registered
CloneRegistered ==
    /\ response.func = "_clone_agent"
    /\ response.status = "OK"
    /\ agent_pool[response.agent_id] # NoAgent
    /\ agent_pool[response.new_id] # NoAgent
    /\ agent_pool[response.new_id].class_name = agent_pool[response.agent_id].class_name

\* C17 (as the spec states it): no deletion takes effect between the lookup
\* of a clone's source and the insertion of the clone: when the clone is
\* inserted its source is in the registry.
CloneSourceStillRegistered ==
    [][(response'.func = "_clone_agent" /\ response'.status = "OK")
       => agent_pool[response'.agent_id] # NoAgent]_vars

\* C18: once shutdown() has returned the server of the launcher runs no
\* handler any more: the stop event was set, the child has stopped its server
\* and its process has ended or was killed, and self.server is None.
ShutdownStopsServer ==
    /\ [](launcher.shut =>
             /\ ~ChildServing
             /\ ~ChildAlive
             /\ launcher.server = "None"
             /\ launcher.child # "none" => launcher.stop_set)
    /\ [][launcher.shut => launcher'.handled = launcher.handled]_vars

\* a shutdown() of a server that has handled RPCs has returned
ShutdownReturnedAfterServing ==
    /\ launcher.shut
    /\ launcher.child = "exited"
    /\ launcher.handled > 0

\* C19: a shutdown() that has set the stop event and waits for the child
\* returns, also when the child does not end by itself.
ShutdownReturns == (launcher.pc = "shutdown_join") ~> (launcher.pc = "idle")

\* C20: the child sends its port and sets start_event only once its server
\* is started, the parent records the process only after it has received the
\* port and seen the event; when launch() has returned the server accepts
\* RPCs and self.port is the port the server is bound to.
LaunchHandshake ==
    /\ launcher.pipe # << >> =>
          /\ launcher.child \notin {"none", "init", "checked"}
          /\ Head(launcher.pipe) = launcher.child_port
    /\ launcher.start_set =>
          launcher.child \notin {"none", "init", "checked", "serving", "sent"}
    /\ launcher.pc \in {"launch_wait", "launch_record"} =>
          /\ launcher.port = launcher.child_port
          /\ launcher.server = "None"
    /\ launcher.pc = "launch_record" => launcher.start_set
    /\ launcher.server = "Process" =>
          /\ launcher.start_set
          /\ launcher.port = launcher.child_port
    /\ launcher.up =>
          /\ launcher.server = "Process"
          /\ launcher.child = "polling"
          /\ ChildServing
          /\ launcher.port = launcher.child_port

\* launch() has returned with a server on another port than the one passed
LaunchedOnOtherPort ==
    /\ launcher.up
    /\ launcher.port # launcher.passed
    /\ launcher.handled > 0

\* C21: when the bind of the port fails in the loop of the child, the next
\* attempt is made on a port other than the one that failed.
BindRetryOnFreshPort ==
    [][(/\ launcher.child = "init"
        /\ launcher.failed # NoPort
        /\ launcher'.child = "checked")
       => launcher'.child_try # launcher.failed]_vars

\* C22: a proxy built without port launches no server at construction when
\* lazy_launch; its first reply, observe or clone_instances launches the
\* server and sends `_create_agent` once, the later ones launch nothing and
\* send no `_create_agent`; without lazy_launch both happen in __init__.
LazyLaunchOnce ==
    \A i \in 1..Len(proxies) :
       proxies[i].owns =>
          /\ proxies[i].launches <= 1
          /\ proxies[i].creates <= proxies[i].launches
          /\ proxies[i].launches = 0 =>
                /\ launcher.child = "none"
                /\ launcher.server = "None"
                /\ ~proxies[i].client
                /\ proxies[i].lazy_launch \/ proxies[i].pc = "init"
          /\ (proxies[i].launches = 1 /\ proxies[i].pc # "launch_call") =>
                /\ launcher.child # "none"
                /\ proxies[i].creates = 1
                /\ proxies[i].client
          /\ proxies[i].pc \in {"body", "clone_loop"} =>
                /\ proxies[i].launches = 1
                /\ proxies[i].creates = 1
          /\ (~proxies[i].lazy_launch /\ proxies[i].pc \notin {"init", "launch_call"}) =>
                /\ proxies[i].launches = 1
                /\ proxies[i].creates = 1

\* a lazy proxy that has cloned itself before is inside a later observe
LaterCallOfLazyProxy ==
    /\ Len(proxies) >= 2
    /\ proxies[1].lazy_launch
    /\ proxies[1].pc = "body"
    /\ proxies[1].op = "observe"
    /\ proxies[1].launches = 1
    /\ proxies[1].creates = 1
    /\ proxies[2].port = "p3"
    /\ proxies[2].connect_existing

\* C23: a proxy built with a port owns no server: whatever it is asked to
\* do it launches nothing, its stop() calls no shutdown() and leaves the
\* launcher as it is, and it has sent `_create_agent` once, at construction,
\* unless connect_existing, and then never.
PortProxyOwnsNothing ==
    /\ [](\A i \in 1..Len(proxies) :
             ~proxies[i].owns =>
                /\ proxies[i].launches = 0
                /\ proxies[i].pc \notin {"init", "launch_call", "stop_call"}
                /\ proxies[i].client
                /\ proxies[i].creates = IF proxies[i].connect_existing THEN 0 ELSE 1)
    /\ [][\A i \in 1..Len(proxies) :
             (~proxies[i].owns /\ proxies'[i] # proxies[i]) =>
                /\ launcher' = launcher
                /\ ~(ENABLED launch)'
                /\ ~(ENABLED shutdown)']_vars

\* a proxy that clone_instances returned has been stopped and the server of
\* its origin is up
CloneStoppedServerUp ==
    /\ Len(proxies) >= 2
    /\ proxies[2].port = "p3"
    /\ proxies[2].connect_existing
    /\ proxies[2].stopped
    /\ launcher.up
    /\ launcher.child = "polling"

\* C24: clone_instances(num_instances, including_self) returns a list of
\* exactly num_instances agents, after num_instances - 1 `_clone_agent` RPCs
\* if including_self, which puts the caller first, and num_instances
\* otherwise; every new proxy of the list is on the port of the caller, with
\* connect_existing and with the agent_id its RPC returned.
CloneInstancesReturnsN ==
    \A i \in 1..Len(proxies) :
       (proxies[i].pc = "clone_loop" /\ proxies[i].left = 0) =>
          LET list == proxies[i].generated_instances
              own  == IF proxies[i].including_self THEN 1 ELSE 0
          IN  /\ Len(list) = proxies[i].num_instances
              /\ proxies[i].clones = proxies[i].num_instances - own
              /\ proxies[i].including_self => list[1] = i
              /\ \A k \in 1..proxies[i].clones :
                    /\ proxies[list[own + k]].port = proxies[i].port
                    /\ proxies[list[own + k]].client_port = proxies[i].port
                    /\ proxies[list[own + k]].connect_existing
                    /\ proxies[list[own + k]].agent_id = proxies[i].answers[k]
                    /\ proxies[list[own + k]].client_id = proxies[i].answers[k]

\* C25: a `_create_agent` with an empty value decodes nothing, returns an
\* empty RpcMsg without raising, whether the agent_id is registered or not,
\* and leaves the registry as it was.
EmptyCreateIsNoOp ==
    [][\A c \in Callers, a \in AgentIds :
          call_func(c, "_create_agent", a, "empty", 0) =>
             /\ response'.status = "OK"
             /\ agent_pool' = agent_pool]_vars

RegistryKeyIsAgentId ==
    \A k \in AgentIds :
       agent_exists(agent_pool, k) => agent_pool[k].agent_id = k

\* the source of a clone has been deleted and the clone is registered
CloneOutlivesSource ==
    /\ response.func = "_delete_agent"
    /\ response.agent_id = "a1"
    /\ ~agent_exists(agent_pool, "a1")
    /\ agent_exists(agent_pool, "a2")
    /\ "a2" \notin created

\* C28: when the agent of an accepted task has been deleted before the
\* worker looks it up, the worker does not fault: the failed lookup is
\* caught, the record of the task becomes the ERROR Msg, the waiters are
\* notified and a `_get` of the task is answered with the ERROR Msg.
DeletedAgentTaskFails ==
    /\ [][\A i \in 1..Len(tasks) :
            /\ (tasks[i].pc \in {"start", "resolved"} /\ tasks'[i].pc = "raised") =>
                  (tasks[i].ref # 0 \/ ~Readable(tasks[i].task_id))
            /\ (tasks[i].pc = "reply" /\ ~tasks[i].found /\ tasks'[i].pc # "reply") =>
                  /\ tasks'[i].pc = "notify"
                  /\ EDRead(result_pool', tasks[i].task_id).val = ErrorMsg
            /\ (/\ tasks[i].result = "raise"
                /\ response'.func = "_get"
                /\ response'.ref = tasks[i].task_id
                /\ response'.status = "OK"
                /\ response' # response) => response'.msg = ErrorMsg]_vars
    /\ [](\A i \in 1..Len(tasks) :
            /\ (tasks[i].pc = "reply" /\ ~tasks[i].found) =>
                  /\ ENABLED WorkerStore(i, "raise")
                  /\ ~ENABLED WorkerStore(i, "return")
            /\ tasks[i].pc = "notify" => ENABLED WorkerNotify(i))

\* the worker of a task has looked up an agent that was deleted after the
\* task was accepted
LookupOfDeletedAgent ==
    \E i \in 1..Len(tasks) :
       /\ tasks[i].pc = "reply"
       /\ ~tasks[i].found
       /\ ~agent_exists(agent_pool, tasks[i].agent_id)

\* C29: shutdown() can be called in every state of the launcher; before any
\* launch and after a completed shutdown it does nothing: it does not touch
\* the stop event and joins or kills no process; the stop event of a
\* launched server is set at most once.
ShutdownIsIdempotent ==
    /\ [](/\ launcher.pc = "idle" => ENABLED ShutdownBegin
          /\ launcher.sets <= 1
          /\ launcher.stop_set <=> launcher.sets = 1)
    /\ [][(/\ launcher.pc = "idle"
            /\ launcher.server = "None"
            /\ launcher'.pc # "launch_recv")
           => /\ launcher'.pc = "idle"
              /\ launcher'.server = "None"
              /\ launcher'.stop_set = launcher.stop_set
              /\ launcher'.stop_event = launcher.stop_event
              /\ launcher'.sets = launcher.sets
              /\ launcher'.child = launcher.child]_vars

\* a second shutdown() has returned after the shutdown of a launched server
ShutdownCalledAgain ==
    /\ launcher.noop
    /\ launcher.shut
    /\ launcher.child = "exited"
    /\ launcher.sets = 1
    /\ launcher.pc = "idle"

====
